---- MODULE Spec2Model ----
(***************************************************************************)
(* Model of cssSelectorBuilder (src/src/05-objects-tasks.js, lines 121-315).*)
(*                                                                         *)
(* The builder is a JavaScript object used both as the template and as the *)
(* prototype of every selector it creates.  The model keeps a heap of      *)
(* objects; each object has a prototype link and two optional own          *)
(* properties, selector and usedSelectors.  Property reads walk the        *)
(* prototype chain, property writes create or change an own property, and  *)
(* a write through this.usedSelectors changes the record of the object     *)
(* that owns it.                                                           *)
(***************************************************************************)
EXTENDS Integers, Sequences, FiniteSets, TLC

(* ------------------------------ bounds --------------------------------- *)
\* objects that may be created besides the template
MaxObjects == 3
\* calls made in one behaviour
MaxOps == 3

\* argument values of the part operations and combinator tokens of combine
Values == {"", "a"}
Combinators == {"+", " "}

(* ------------------------------ objects -------------------------------- *)
\* the keys of the usedSelectors record, in the order of the source
Kinds == {"element", "id", "className", "attribute", "pseudoClass", "pseudoElement"}

\* heap index of the cssSelectorBuilder object literal; 0 is "no object"
Template == 1
NoObject == 0

\* the usedSelectors literal of a new instance: only the flag of `kind` set
NewUsedSelectors(kind) == [k \in Kinds |-> k = kind]
\* placeholder of an absent usedSelectors property
NoUsedSelectors == [k \in Kinds |-> FALSE]

\* a JavaScript value that is a string or undefined
Undefined == [undef |-> TRUE, str |-> ""]
Str(s) == [undef |-> FALSE, str |-> s]

VARIABLES
  heap,   \* sequence of objects: proto, own selector, own usedSelectors
  made,   \* how each object came to be: "template", "part" or "combine"
  parts,  \* per object, the part calls <<kind, value>> that returned it
  last,   \* the last call: operation, receiver, arguments, outcome, result
  nops,   \* number of calls made
  operands \* per object made by combine: its operands and its first text

vars == <<heap, made, parts, last, nops, operands>>

Objects == 1..Len(heap)

(* --------------------------- property lookup --------------------------- *)
RECURSIVE SelectorOwner(_, _)
\* the object on the prototype chain of o that has an own selector
SelectorOwner(h, o) ==
  IF o = NoObject THEN NoObject
  ELSE IF h[o].hasSelector THEN o
  ELSE SelectorOwner(h, h[o].proto)

RECURSIVE UsedOwner(_, _)
\* the object on the prototype chain of o that has an own usedSelectors
UsedOwner(h, o) ==
  IF o = NoObject THEN NoObject
  ELSE IF h[o].hasUsed THEN o
  ELSE UsedOwner(h, h[o].proto)

\* this.selector
GetSelector(h, o) ==
  LET w == SelectorOwner(h, o)
  IN IF w = NoObject THEN Undefined ELSE Str(h[w].selector)

\* this.usedSelectors is defined
HasUsedSelectors(h, o) == UsedOwner(h, o) # NoObject

\* this.usedSelectors (read only where it is defined)
GetUsedSelectors(h, o) ==
  LET w == UsedOwner(h, o)
  IN IF w = NoObject THEN NoUsedSelectors ELSE h[w].usedSelectors

\* truthiness of a string-or-undefined value: undefined and '' are falsy
Truthy(v) == ~v.undef /\ v.str # ""

\* conversion of a value inside a template literal
TemplateString(v) == IF v.undef THEN "undefined" ELSE v.str

(* ----------------------------- stringify ------------------------------- *)
\* stringify() that turns a missing selector into the empty string
stringifyValueOrEmpty(h, o) ==
  IF GetSelector(h, o).undef THEN Str("") ELSE GetSelector(h, o)

\* stringify(): return this.selector
stringifyValue(h, o) == GetSelector(h, o)

(* --------------------------- part operations --------------------------- *)
\* the text each method appends for its value
elementText(value) == value
idText(value) == "#" \o value
classText(value) == "." \o value
attrText(value) == "[" \o value \o "]"
pseudoClassText(value) == ":" \o value
\* pseudoElement text with a single colon
pseudoElementTextOneColon(value) == ":" \o value
pseudoElementText(value) == "::" \o value

\* the first guard of element, id and pseudoElement: the kind is already used
elementUsed(u) == u["element"]
\* id guard that never fires
idUsedNever(u) == FALSE
idUsed(u) == u["id"]
pseudoElementUsed(u) == u["pseudoElement"]

\* the ordering guard of each method: a later kind is already used
elementOrder(u) ==
  u["id"] \/ u["className"] \/ u["attribute"] \/ u["pseudoClass"] \/ u["pseudoElement"]
idOrder(u) ==
  u["className"] \/ u["attribute"] \/ u["pseudoClass"] \/ u["pseudoElement"]
\* class guard that forgets the attribute flag
classOrderWithoutAttribute(u) == u["pseudoClass"] \/ u["pseudoElement"]
\* class guard that also fires on a class already used
classOrderRejectingRepeat(u) ==
  u["className"] \/ u["attribute"] \/ u["pseudoClass"] \/ u["pseudoElement"]
classOrder(u) == u["attribute"] \/ u["pseudoClass"] \/ u["pseudoElement"]
attrOrder(u) == u["pseudoClass"] \/ u["pseudoElement"]
pseudoClassOrder(u) == u["pseudoElement"]

\* dispatch of the three per-method pieces on the usedSelectors key
TextOf(kind, value) ==
  CASE kind = "element" -> elementText(value)
    [] kind = "id" -> idText(value)
    [] kind = "className" -> classText(value)
    [] kind = "attribute" -> attrText(value)
    [] kind = "pseudoClass" -> pseudoClassText(value)
    [] kind = "pseudoElement" -> pseudoElementText(value)

ThrowsOccurrence(kind, u) ==
  CASE kind = "element" -> elementUsed(u)
    [] kind = "id" -> idUsed(u)
    [] kind = "pseudoElement" -> pseudoElementUsed(u)
    [] OTHER -> FALSE

ThrowsOrder(kind, u) ==
  CASE kind = "element" -> elementOrder(u)
    [] kind = "id" -> idOrder(u)
    [] kind = "className" -> classOrder(u)
    [] kind = "attribute" -> attrOrder(u)
    [] kind = "pseudoClass" -> pseudoClassOrder(u)
    [] OTHER -> FALSE

\* the branch taken for every value but the empty string
ExtendsInPlaceUnlessEmpty(h, this) == GetSelector(h, this) # Str("")

\* the branch `if (this.selector)` of every method
ExtendsInPlace(h, this) == Truthy(GetSelector(h, this))

\* what a part call on `this` does, from the guards in source order:
\*   "occurrence"  throws 'Element, id and pseudo-element should not occur...'
\*   "order"       throws 'Selector parts should be arranged in the ...'
\*   "typeError"   this.usedSelectors is undefined when its flag is assigned
\*   "extended"    returns this, extended in place
\*   "created"     returns a new instance whose prototype is this
Outcome(h, this, kind) ==
  IF HasUsedSelectors(h, this) /\ ThrowsOccurrence(kind, GetUsedSelectors(h, this))
    THEN "occurrence"
  ELSE IF HasUsedSelectors(h, this) /\ ThrowsOrder(kind, GetUsedSelectors(h, this))
    THEN "order"
  ELSE IF ExtendsInPlace(h, this)
    THEN IF HasUsedSelectors(h, this) THEN "extended" ELSE "typeError"
  ELSE "created"

\* this.selector += text : read through the chain, write an own property
AppendSelector(h, this, text) ==
  [h EXCEPT ![this].hasSelector = TRUE,
            ![this].selector = TemplateString(GetSelector(h, this)) \o text]

\* this.usedSelectors.<kind> = true : changes the record where it lives
MarkUsed(h, this, kind) ==
  LET w == UsedOwner(h, this)
  IN [h EXCEPT ![w].usedSelectors[kind] = TRUE]

\* const instance = {}; setPrototypeOf(instance, this); selector; usedSelectors
NewInstance(this, kind, value) ==
  [proto |-> this, hasSelector |-> TRUE, selector |-> TextOf(kind, value),
   hasUsed |-> TRUE, usedSelectors |-> NewUsedSelectors(kind)]

\* a part call that appends its text before it checks its guards
HeapAfterPartAppendingFirst(h, this, kind, value) ==
  LET out == Outcome(h, this, kind)
  IN CASE out = "extended" ->
            MarkUsed(AppendSelector(h, this, TextOf(kind, value)), this, kind)
       [] out = "created" -> Append(h, NewInstance(this, kind, value))
       [] OTHER -> AppendSelector(h, this, TextOf(kind, value))

\* the heap after a part call
HeapAfterPart(h, this, kind, value) ==
  LET out == Outcome(h, this, kind)
  IN CASE out = "extended" ->
            MarkUsed(AppendSelector(h, this, TextOf(kind, value)), this, kind)
       [] out = "typeError" -> AppendSelector(h, this, TextOf(kind, value))
       [] out = "created" -> Append(h, NewInstance(this, kind, value))
       [] OTHER -> h

\* the operands entry of an object that combine did not make
NoOperands == [a |-> NoObject, b |-> NoObject, text |-> ""]

NoCall == [op |-> "none", this |-> NoObject, kind |-> "none", a |-> NoObject,
           b |-> NoObject, tok |-> "", outcome |-> "none", result |-> NoObject,
           ret |-> Undefined]

\* one call this.<kind method>(value)
Part(this, kind, value) ==
  LET out == Outcome(heap, this, kind)
      new == Len(heap) + 1
  IN /\ nops < MaxOps
     /\ out = "created" => Len(heap) < MaxObjects + 1
     /\ heap' = HeapAfterPart(heap, this, kind, value)
     /\ made' = IF out = "created" THEN Append(made, "part") ELSE made
     /\ parts' = CASE out = "created" ->
                        Append(parts, Append(parts[this], <<kind, value>>))
                   [] out = "extended" ->
                        [parts EXCEPT ![this] = Append(@, <<kind, value>>)]
                   [] OTHER -> parts
     /\ last' = [NoCall EXCEPT !.op = "part", !.this = this, !.kind = kind,
                   !.outcome = out,
                   !.result = CASE out = "created" -> new
                                [] out = "extended" -> this
                                [] OTHER -> NoObject]
     /\ nops' = nops + 1
     /\ operands' = IF out = "created" THEN Append(operands, NoOperands)
                    ELSE operands

element(this, value) == Part(this, "element", value)
id(this, value) == Part(this, "id", value)
class(this, value) == Part(this, "className", value)
attr(this, value) == Part(this, "attribute", value)
pseudoClass(this, value) == Part(this, "pseudoClass", value)
pseudoElement(this, value) == Part(this, "pseudoElement", value)

(* ------------------------------- combine ------------------------------- *)
\* the template literal without the spaces around the combinator
combineTextWithoutSpaces(h, selector1, combinator, selector2) ==
  TemplateString(stringifyValue(h, selector1)) \o combinator
    \o TemplateString(stringifyValue(h, selector2))

\* `${selector1.stringify()} ${combinator} ${selector2.stringify()}`
combineText(h, selector1, combinator, selector2) ==
  TemplateString(stringifyValue(h, selector1)) \o " " \o combinator \o " "
    \o TemplateString(stringifyValue(h, selector2))

\* an instance that delegates to its first operand and keeps no text
CombineInstanceDelegating(h, this, selector1, combinator, selector2) ==
  [proto |-> selector1, hasSelector |-> FALSE, selector |-> "",
   hasUsed |-> FALSE, usedSelectors |-> NoUsedSelectors]

\* the instance combine returns: prototype this, own selector, nothing else
CombineInstance(h, this, selector1, combinator, selector2) ==
  [proto |-> this, hasSelector |-> TRUE,
   selector |-> combineText(h, selector1, combinator, selector2),
   hasUsed |-> FALSE, usedSelectors |-> NoUsedSelectors]

combine(this, selector1, combinator, selector2) ==
  /\ nops < MaxOps
  /\ Len(heap) < MaxObjects + 1
  /\ heap' = Append(heap, CombineInstance(heap, this, selector1, combinator, selector2))
  /\ made' = Append(made, "combine")
  /\ parts' = Append(parts, <<>>)
  /\ last' = [NoCall EXCEPT !.op = "combine", !.this = this, !.a = selector1,
                !.tok = combinator, !.b = selector2, !.outcome = "created",
                !.result = Len(heap) + 1]
  /\ nops' = nops + 1
  /\ operands' = Append(operands,
                    [a |-> selector1, b |-> selector2,
                     text |-> heap'[Len(heap) + 1].selector])

\* a stringify that empties the selector it returns
stringifyAndReset(this) ==
  /\ nops < MaxOps
  /\ last' = [NoCall EXCEPT !.op = "stringify", !.this = this,
                !.outcome = "returned", !.ret = stringifyValue(heap, this)]
  /\ nops' = nops + 1
  /\ heap' = IF heap[this].hasSelector
               THEN [heap EXCEPT ![this].selector = ""] ELSE heap
  /\ UNCHANGED <<made, parts, operands>>

\* one call this.stringify()
stringify(this) ==
  /\ nops < MaxOps
  /\ last' = [NoCall EXCEPT !.op = "stringify", !.this = this,
                !.outcome = "returned", !.ret = stringifyValue(heap, this)]
  /\ nops' = nops + 1
  /\ UNCHANGED <<heap, made, parts, operands>>

(* ---------------------------- specification ---------------------------- *)
\* the object literal: no selector, no usedSelectors, prototype Object.prototype
TemplateObject ==
  [proto |-> NoObject, hasSelector |-> FALSE, selector |-> "",
   hasUsed |-> FALSE, usedSelectors |-> NoUsedSelectors]

Init ==
  /\ heap = <<TemplateObject>>
  /\ made = <<"template">>
  /\ parts = << <<>> >>
  /\ last = NoCall
  /\ nops = 0
  /\ operands = <<NoOperands>>

Next ==
  \/ \E this \in Objects, value \in Values : element(this, value)
  \/ \E this \in Objects, value \in Values : id(this, value)
  \/ \E this \in Objects, value \in Values : class(this, value)
  \/ \E this \in Objects, value \in Values : attr(this, value)
  \/ \E this \in Objects, value \in Values : pseudoClass(this, value)
  \/ \E this \in Objects, value \in Values : pseudoElement(this, value)
  \/ \E this \in Objects, selector1 \in Objects, selector2 \in Objects,
        combinator \in Combinators : combine(this, selector1, combinator, selector2)
  \/ \E this \in Objects : stringify(this)

Spec == Init /\ [][Next]_vars

(* ------------------------- vocabulary of the claims -------------------- *)
\* the order Element < Id < Class < Attribute < PseudoClass < PseudoElement
Rank(kind) ==
  CASE kind = "element" -> 0
    [] kind = "id" -> 1
    [] kind = "className" -> 2
    [] kind = "attribute" -> 3
    [] kind = "pseudoClass" -> 4
    [] kind = "pseudoElement" -> 5

\* the formatted fragment of a part: v, #v, .v, [v], :v, ::v
Fragment(kind, value) ==
  CASE kind = "element" -> value
    [] kind = "id" -> "#" \o value
    [] kind = "className" -> "." \o value
    [] kind = "attribute" -> "[" \o value \o "]"
    [] kind = "pseudoClass" -> ":" \o value
    [] kind = "pseudoElement" -> "::" \o value

RECURSIVE Concatenation(_)
\* the fragments of a sequence of parts, in call order, with no separators
Concatenation(ps) ==
  IF ps = <<>> THEN ""
  ELSE Concatenation(SubSeq(ps, 1, Len(ps) - 1))
         \o Fragment(ps[Len(ps)][1], ps[Len(ps)][2])

\* the part chains: objects returned by a part operation
Chains == {o \in Objects : made[o] = "part"}
\* the chains started by a part operation called on the template
RootChains == {o \in Chains : heap[o].proto = Template}
\* the kinds of the parts applied to a chain
AppliedKinds(o) == {parts[o][i][1] : i \in 1..Len(parts[o])}
\* the number of parts of one kind applied to a chain
Occurrences(o, kind) == Cardinality({i \in 1..Len(parts[o]) : parts[o][i][1] = kind})
\* the kinds the chain's usedSelectors flags record
UsedKinds(h, o) == {k \in Kinds : GetUsedSelectors(h, o)[k]}
\* kinds the code admits once per selector
OnceKinds == {"element", "id", "pseudoElement"}

\* a part call was the last call and it returned a builder
PartReturned(l) == l.op = "part" /\ l.outcome \in {"extended", "created"}
\* a part call was the last call and it threw one of the two usage errors
PartRejected(l) == l.op = "part" /\ l.outcome \in {"occurrence", "order"}

(* -------------------------------- C1 ----------------------------------- *)
\* C1: after any sequence of part operations, accepted or rejected, the
\* rendered string of every part chain is made of the fragments of its
\* parts, and the kinds of those parts are in non-decreasing order
\* Element < Id < Class < Attribute < PseudoClass < PseudoElement.
C1_PartsInKindOrder ==
  \A o \in Chains :
    /\ heap[o].hasSelector /\ heap[o].selector = Concatenation(parts[o])
    /\ \A i \in 1..Len(parts[o]), j \in 1..Len(parts[o]) :
         i < j => Rank(parts[o][i][1]) <= Rank(parts[o][j][1])

\* a chain of at least two parts on which an out-of-order call was rejected
C1_Witness ==
  /\ last.op = "part" /\ last.outcome = "order"
  /\ last.this \in Chains /\ Len(parts[last.this]) >= 2

(* -------------------------------- C2 ----------------------------------- *)
\* C2: for every chain and every kind K that is not a once-only kind already
\* applied, the part operation for K fails with the out-of-order error
\* exactly when a part of a kind strictly higher than K has been applied to
\* the chain.
C2_OrderErrorIffHigherApplied ==
  \A o \in Chains, k \in Kinds :
    ~(k \in OnceKinds /\ k \in AppliedKinds(o)) =>
      ((Outcome(heap, o, k) = "order")
         <=> (\E k2 \in AppliedKinds(o) : Rank(k2) > Rank(k)))

(* -------------------------------- C3 ----------------------------------- *)
\* C3: on every chain on which element (respectively pseudoElement) has been
\* applied, with any value and with any parts in between, a further element
\* (respectively pseudoElement) call fails with the duplicate error, not
\* with the out-of-order error and not with success.
C3_SecondSingletonIsDuplicate ==
  \A o \in Chains, k \in {"element", "pseudoElement"} :
    k \in AppliedKinds(o) => Outcome(heap, o, k) = "occurrence"

(* -------------------------------- C4 ----------------------------------- *)
\* the highest kind among a set of kinds is k
HighestIs(ks, k) == k \in ks /\ \A k2 \in ks : Rank(k2) <= Rank(k)

\* a part call of kind k on `this` returned a builder that renders the
\* receiver's previous text followed by one more fragment of kind k
AppendedOneMore(k) ==
  /\ PartReturned(last')
  /\ LET r == last'.result
         n == Len(parts'[r])
     IN /\ n >= 1 /\ parts'[r][n][1] = k
        /\ stringifyValue(heap', r)
             = Str(TemplateString(stringifyValue(heap, last'.this))
                     \o Fragment(k, parts'[r][n][2]))

\* C4 as stated: each of Id, Class, Attribute and PseudoClass may repeat; on
\* a chain whose highest applied kind is K, applying K again succeeds and
\* appends one more fragment of that kind.
C4_RepeatIncludingId ==
  [][\A k \in {"id", "className", "attribute", "pseudoClass"} :
       (/\ last'.op = "part" /\ last'.kind = k
        /\ last'.this \in Chains
        /\ HighestIs(AppliedKinds(last'.this), k))
         => AppendedOneMore(k)]_vars

\* C4 amended: each of Class, Attribute and PseudoClass may repeat; on a
\* chain whose used kinds have K as their highest, applying K again succeeds
\* and the returned builder renders the previous text followed by one more
\* fragment of that kind.
C4_RepeatClassAttrPseudoClass ==
  [][\A k \in {"className", "attribute", "pseudoClass"} :
       (/\ last'.op = "part" /\ last'.kind = k
        /\ last'.this \in Chains
        /\ HighestIs(UsedKinds(heap, last'.this), k))
         => AppendedOneMore(k)]_vars

\* a chain whose last two parts are of the same repeatable kind
C4_Witness ==
  /\ PartReturned(last) /\ last.outcome = "extended"
  /\ last.kind \in {"className", "attribute", "pseudoClass"}
  /\ last.this \in Chains
  /\ LET ps == parts[last.this]
     IN /\ Len(ps) >= 2
        /\ ps[Len(ps)][1] = last.kind /\ ps[Len(ps) - 1][1] = last.kind

(* -------------------------------- C5 ----------------------------------- *)
\* C5: in every reachable state of a part chain its rendered string holds at
\* most one element fragment, at most one id fragment and at most one
\* pseudo-element fragment, and an id call on a chain that already has an
\* id is rejected with the 'should not occur more then one time' error.
C5_AtMostOnce ==
  \A o \in Chains :
    /\ stringifyValue(heap, o) = Str(Concatenation(parts[o]))
    /\ \A k \in OnceKinds : Occurrences(o, k) <= 1
    /\ "id" \in AppliedKinds(o) => Outcome(heap, o, "id") = "occurrence"

\* a second id call on a chain with an id has just been rejected
C5_Witness ==
  /\ last.op = "part" /\ last.kind = "id" /\ last.outcome = "occurrence"
  /\ last.this \in Chains /\ "id" \in AppliedKinds(last.this)

(* -------------------------------- C6 ----------------------------------- *)
\* C6: the builder returned by an accepted part operation renders as the
\* concatenation, in call order and with no separators, of the formatted
\* fragments of the parts applied since the template.
C6_RenderIsConcatenation ==
  (PartReturned(last) /\ last.result \in Chains) =>
    stringifyValue(heap, last.result) = Str(Concatenation(parts[last.result]))

\* a chain of three parts of three different kinds has just been extended
C6_Witness ==
  /\ PartReturned(last) /\ last.result \in Chains
  /\ Len(parts[last.result]) = 3
  /\ Cardinality(AppliedKinds(last.result)) = 3

(* -------------------------------- C7 ----------------------------------- *)
\* the object has a rendered string
HasRendered(h, o) == ~stringifyValue(h, o).undef

\* C7: for selectors a and b that have a rendered string, the builder
\* combine(a, t, b) returns renders render(a) + ' ' + t + ' ' + render(b)
\* with t verbatim; combine never fails and changes no existing object.
C7_CombineRender ==
  [][last'.op = "combine" =>
       /\ last'.outcome = "created"
       /\ \A o \in Objects : heap'[o] = heap[o]
       /\ (HasRendered(heap, last'.a) /\ HasRendered(heap, last'.b)) =>
            stringifyValue(heap', last'.result)
              = Str(stringifyValue(heap, last'.a).str \o " " \o last'.tok
                      \o " " \o stringifyValue(heap, last'.b).str)]_vars

\* a composite has just been made of a composite and a part chain
C7_Witness ==
  /\ last.op = "combine"
  /\ made[last.a] = "combine" /\ made[last.b] = "part"
  /\ made[last.result] = "combine"

(* -------------------------------- C8 ----------------------------------- *)
\* C8 as stated: render() on the template, to which no part has ever been
\* applied, fails with the EmptySelector error instead of returning.
C8_EmptyRenderFails ==
  (last.op = "stringify" /\ made[last.this] = "template") =>
    last.outcome = "EmptySelector"

\* C8 amended: render() on the template does not fail; it returns
\* undefined, no string.
C8_EmptyRenderReturnsUndefined ==
  (last.op = "stringify" /\ made[last.this] = "template") =>
    (last.outcome = "returned" /\ last.ret = Undefined)

\* stringify has just been called on the template
C8_Witness ==
  /\ last.op = "stringify" /\ last.this = Template
  /\ parts[Template] = <<>>

(* -------------------------------- C9 ----------------------------------- *)
\* C9: when a part operation on a part chain is rejected for a cardinality
\* or ordering violation, the receiver's rendered string and used kinds are
\* what they were before the call, and every part operation and render
\* behave on the chain as they did before.
C9_RejectedIsNoOp ==
  [][(PartRejected(last') /\ last'.this \in Chains) =>
       LET r == last'.this
       IN /\ stringifyValue(heap', r) = stringifyValue(heap, r)
          /\ UsedKinds(heap', r) = UsedKinds(heap, r)
          /\ parts'[r] = parts[r]
          /\ Len(heap') = Len(heap)
          /\ \A k \in Kinds : Outcome(heap', r, k) = Outcome(heap, r, k)]_vars

\* a call on a chain has just been rejected and the chain can be extended
C9_Witness ==
  /\ PartRejected(last) /\ last.this \in Chains
  /\ \E k \in Kinds : Outcome(heap, last.this, k) = "extended"
  /\ HasRendered(heap, last.this)

(* -------------------------------- C10 ---------------------------------- *)
\* the template has no rendered string and no used-kind state
TemplateUntouched(h) ==
  /\ ~h[Template].hasSelector /\ ~h[Template].hasUsed
  /\ stringifyValue(h, Template) = Undefined
  /\ ~HasUsedSelectors(h, Template)

\* C10: the template never gets a rendered string or used kinds, and a part
\* operation on one chain started from the template leaves the rendered
\* string and used kinds of every other such chain unchanged.
C10_TemplateAndRootChainsIndependent ==
  [][/\ TemplateUntouched(heap')
     /\ (last'.op = "part" /\ last'.this \in RootChains) =>
          \A o \in RootChains \ {last'.this} :
            /\ stringifyValue(heap', o) = stringifyValue(heap, o)
            /\ UsedKinds(heap', o) = UsedKinds(heap, o)]_vars

\* one of two chains started from the template has just been extended
C10_Witness ==
  /\ last.op = "part" /\ last.outcome = "extended"
  /\ last.this \in RootChains
  /\ RootChains \ {last.this} # {}
  /\ TemplateUntouched(heap)

(* -------------------------------- C11 ---------------------------------- *)
\* the objects combine returned
Composites == {o \in Objects : made[o] = "combine"}

\* C11: for every composite and every part operation attempted on it
\* afterwards, whether the call returns or fails, the composite renders the
\* same string as immediately after combine.
C11_CompositeKeepsItsText ==
  \A c \in Composites : stringifyValue(heap, c) = Str(operands[c].text)

(* -------------------------------- C12 ---------------------------------- *)
\* the object is an operand of the composite
OperandOf(o, c) == o = operands[c].a \/ o = operands[c].b

\* C12: when an operand of a composite is extended by a part operation after
\* combine has returned, the composite still renders the string it rendered
\* before, built from the operands' text at the moment of combine.
C12_EagerCapture ==
  [][(last'.op = "part" /\ last'.outcome = "extended") =>
       \A c \in Composites \ {last'.this} :
         OperandOf(last'.this, c) =>
           stringifyValue(heap', c) = stringifyValue(heap, c)]_vars

\* an operand chain of a composite has just been extended, and the composite
\* still renders the text captured by combine, without the new fragment
C12_Witness ==
  /\ last.op = "part" /\ last.outcome = "extended" /\ last.this \in Chains
  /\ \E c \in Composites :
       /\ operands[c].a = last.this /\ operands[c].b = last.this
       /\ stringifyValue(heap, c) = Str(operands[c].text)
       /\ Len(operands[c].text) < 2 * Len(heap[last.this].selector) + 3

(* -------------------------------- C13 ---------------------------------- *)
\* C13: render() changes neither the rendered string nor the used kinds of
\* its receiver, a second render() returns the same string, and every part
\* operation behaves on the receiver as it did before the call.
C13_RenderNonDestructive ==
  [][last'.op = "stringify" =>
       LET r == last'.this
       IN /\ stringifyValue(heap', r) = stringifyValue(heap, r)
          /\ last'.ret = stringifyValue(heap', r)
          /\ UsedKinds(heap', r) = UsedKinds(heap, r)
          /\ HasUsedSelectors(heap', r) = HasUsedSelectors(heap, r)
          /\ \A k \in Kinds : Outcome(heap', r, k) = Outcome(heap, r, k)]_vars

\* a chain that can still be extended has just been rendered
C13_Witness ==
  /\ last.op = "stringify" /\ last.this \in Chains
  /\ Truthy(last.ret)
  /\ \E k \in Kinds : Outcome(heap, last.this, k) = "extended"

(* -------------------------------- C14 ---------------------------------- *)
\* C14: a part operation that succeeds on a builder to which at least one
\* part has been applied, with any value, extends that builder in place and
\* returns it: the receiver renders its previous text followed by the new
\* fragment and its used kinds are the earlier ones and the new one.
C14_ExtendsInPlace ==
  [][(PartReturned(last') /\ Len(parts[last'.this]) >= 1) =>
       LET r == last'.this
           n == Len(parts'[r])
       IN /\ last'.outcome = "extended" /\ last'.result = r
          /\ n = Len(parts[r]) + 1
          /\ stringifyValue(heap', r)
               = Str(stringifyValue(heap, r).str
                       \o Fragment(last'.kind, parts'[r][n][2]))
          /\ UsedKinds(heap', r) = UsedKinds(heap, r) \cup {last'.kind}]_vars

(* -------------------------------- C15 ---------------------------------- *)
\* C15: a part operation invoked on builder X, part chain or composite,
\* changes the rendered string and used kinds of X only, never those of any
\* other builder.
C15_OnlyReceiverChanges ==
  [][last'.op = "part" =>
       \A o \in Objects \ {last'.this} :
         /\ stringifyValue(heap', o) = stringifyValue(heap, o)
         /\ HasUsedSelectors(heap', o) = HasUsedSelectors(heap, o)
         /\ UsedKinds(heap', o) = UsedKinds(heap, o)]_vars

====
